---- MODULE Spec2Model ----
(***************************************************************************)
(* Model of leoric_kb_ai_huggingface: helper_data.download_and_unzip and   *)
(* helper_model.get_device.                                                *)
(*                                                                         *)
(* download_and_unzip is a sequential routine; the model follows it from   *)
(* one external interaction to the next (filesystem probe, mkdir, HEAD,    *)
(* GET, temporary file, chunk loop, extraction, cleanup).  The network,    *)
(* the server's payload and the filesystem are the environment: their      *)
(* answers are drawn nondeterministically from small sets.                 *)
(***************************************************************************)
EXTENDS Integers, Sequences, FiniteSets, TLC

\* ---------------------------------------------------------------- bounds
MaxLen == 1          \* largest Content-Length value a response advertises
MaxChunks == 2       \* most chunks iter_content yields in one transfer
MaxChunkLen == 2     \* longest chunk, in abstract byte units
MaxEntries == 2      \* most entries of the served archive

EntryNames == {"hello.txt", "b.txt"}

VARIABLES
    \* environment: the destination path and the staging file on disk
    destKind,          \* "absent" | "dir" | "file": what extract_to names
    destFiles,         \* entries of the destination directory
    tempExists,        \* the staging file of this invocation is on disk
    \* arguments and the server's payload
    skip_if_not_empty,
    zipValid,          \* the served bytes parse as a ZIP archive
    zipNames,          \* namelist() of the served archive, in stored order
    \* locals of download_and_unzip
    pc,
    total_bytes,
    taskTotal,         \* <<>> is total=None, <<n>> is total=n
    chunk,             \* length of the chunk in hand
    tempSize,          \* bytes written to the staging file
    completed,         \* the progress task's completed count
    tempBound,         \* 'temp_zip_path' in locals()
    extracted_files,
    raised,            \* exception leaving the call
    retval,            \* value returned by the call
    \* observation of one invocation
    destAtEntry,
    nHead,
    nGet,
    headOutcome,       \* how the HEAD probe ended
    getOutcome,        \* status of the GET response
    bodyLen,           \* bytes the server delivered
    nChunks,
    nNonEmpty,
    nUpdates,
    failure,           \* class of the exception first raised inside the call
    extractStarted,
    tempCreated,
    unlinkFailed,
    prev,              \* <<failure, raised.type>> of the previous invocation
    \* get_device
    cudaAvail,
    mpsAvail,
    device,
    devRet

env == <<destKind, destFiles, tempExists>>
server == <<skip_if_not_empty, zipValid, zipNames>>
progressVars == <<total_bytes, taskTotal, chunk, tempSize, completed>>
resultVars == <<extracted_files, raised, retval>>
netObs == <<nHead, nGet, headOutcome, getOutcome>>
streamObs == <<bodyLen, nChunks, nNonEmpty, nUpdates>>
fsObs == <<destAtEntry, extractStarted, tempCreated, unlinkFailed>>
devVars == <<cudaAvail, mpsAvail, device, devRet>>

vars == <<env, server, pc, progressVars, tempBound, resultVars, netObs,
          streamObs, fsObs, failure, prev, devVars>>

\* ------------------------------------------------------------ exceptions
Exc(t, m, c) == [type |-> t, msg |-> m, cause |-> c]
NoExc == Exc("None", "", "None")

\* line 116: raise Exception(f"下载文件失败: ...") from e
DownloadFailed == Exc("Exception", "download_failed", "RequestException")
\* line 118: raise Exception(f"ZIP文件损坏或格式错误: ...") from e
BadZip == Exc("Exception", "zip_corrupt", "BadZipFile")
\* line 120: raise Exception(f"文件操作失败: ...") from e
FileOpFailed == Exc("Exception", "file_op_failed", "OSError")

\* the except chain of lines 115-120
Wrap(cls) ==
    CASE cls = "RequestException" -> DownloadFailed
      [] cls = "BadZipFile" -> BadZip
      [] cls = "OSError" -> FileOpFailed
      [] OTHER -> Exc(cls, "", "None")   \* e.g. ValueError of line 80: no clause

\* ------------------------------------------------------------- responses
Missing == [kind |-> "missing", value |-> 0]
Malformed == [kind |-> "malformed", value |-> 0]
Headers == {Missing, Malformed} \cup {[kind |-> "int", value |-> n] : n \in -1..MaxLen}

\* what the probe's caller can tell about a response: its failure, or the
\* kind of its Content-Length header
Outcome(r) == IF r.status = "ok" THEN r.header.kind ELSE r.status

Responses ==
    {[status |-> s, header |-> Missing] : s \in {"conn_error", "timeout", "http_error"}}
    \cup {[status |-> "ok", header |-> h] : h \in Headers}

\* int(headers.get("Content-Length", 0)): ok = FALSE is ValueError
ParseContentLength(h) ==
    CASE h.kind = "missing" -> [ok |-> TRUE, value |-> 0]
      [] h.kind = "malformed" -> [ok |-> FALSE, value |-> 0]
      [] OTHER -> [ok |-> TRUE, value |-> h.value]

RECURSIVE Range(_)
Range(s) == IF s = <<>> THEN {} ELSE {Head(s)} \cup Range(Tail(s))

SeqsUpTo(S, n) == UNION {[1..k -> S] : k \in 0..n}

None == [isNone |-> TRUE, entries |-> <<>>]

\* ------------------------------------------------------------------ Init
Init ==
    /\ destKind \in {"absent", "dir", "file"}
    /\ destFiles \in SUBSET EntryNames
    /\ (destKind # "dir" => destFiles = {})
    /\ tempExists = FALSE
    /\ skip_if_not_empty = TRUE
    /\ zipValid = TRUE
    /\ zipNames = <<>>
    /\ pc = "idle"
    /\ total_bytes = 0
    /\ taskTotal = <<>>
    /\ chunk = 0
    /\ tempSize = 0
    /\ completed = 0
    /\ tempBound = FALSE
    /\ extracted_files = <<>>
    /\ raised = NoExc
    /\ retval = None
    /\ destAtEntry = [kind |-> destKind, files |-> destFiles]
    /\ nHead = 0
    /\ nGet = 0
    /\ headOutcome = "none"
    /\ getOutcome = "none"
    /\ bodyLen = 0
    /\ nChunks = 0
    /\ nNonEmpty = 0
    /\ nUpdates = 0
    /\ failure = "None"
    /\ extractStarted = FALSE
    /\ tempCreated = FALSE
    /\ unlinkFailed = FALSE
    /\ prev = <<"None", "None">>
    /\ cudaAvail = FALSE
    /\ mpsAvail = FALSE
    /\ device = "unset"
    /\ devRet = "unset"

\* ------------------------------------------------- download_and_unzip
\* A caller invokes download_and_unzip(url, extract_to, skip_if_not_empty).
Call ==
    /\ pc = "idle"
    /\ pc' = "guard"
    /\ skip_if_not_empty' \in BOOLEAN
    /\ \/ zipValid' = TRUE /\ zipNames' \in SeqsUpTo(EntryNames, MaxEntries)
       \/ zipValid' = FALSE /\ zipNames' = <<>>    \* bytes that are no archive
    /\ destAtEntry' = [kind |-> destKind, files |-> destFiles]
    /\ UNCHANGED <<env, progressVars, tempBound, resultVars, netObs, streamObs,
                   extractStarted, tempCreated, unlinkFailed, failure, prev, devVars>>

\* an exception that leaves the function without passing the try block
RaiseOutside(cls) ==
    /\ failure' = cls
    /\ raised' = Exc(cls, "", "None")
    /\ pc' = "done"

\* an exception raised inside the try block: except chain, then finally
RaiseInside(cls) ==
    /\ failure' = cls
    /\ raised' = Wrap(cls)
    /\ pc' = "cleanup"

\* a guard that never finds the directory occupied
has_files_never(files) == FALSE

\* line 39: has_files = any(extract_path.iterdir())
has_files(files) == files # {}

\* lines 37-42: the skip guard
Guard ==
    /\ pc = "guard"
    /\ IF skip_if_not_empty /\ destKind # "absent"
       THEN IF destKind = "file"
            THEN \* iterdir() of a path that is no directory: NotADirectoryError
                 RaiseOutside("OSError")
            ELSE IF has_files(destFiles)
                 THEN pc' = "done" /\ UNCHANGED <<failure, raised>>
                 ELSE pc' = "mkdir" /\ UNCHANGED <<failure, raised>>
       ELSE pc' = "mkdir" /\ UNCHANGED <<failure, raised>>
    /\ UNCHANGED <<env, server, progressVars, tempBound, extracted_files, retval,
                   netObs, streamObs, fsObs, prev, devVars>>

\* line 45: extract_path.mkdir(parents=True, exist_ok=True)
Mkdir ==
    /\ pc = "mkdir"
    /\ \/ /\ destKind = "dir"
          /\ pc' = "head"
          /\ UNCHANGED <<destKind, failure, raised>>
       \/ /\ destKind = "absent"
          /\ destKind' = "dir"
          /\ pc' = "head"
          /\ UNCHANGED <<failure, raised>>
       \/ \* FileExistsError (a file is in the way) or PermissionError
          /\ destKind \in {"file", "absent"}
          /\ RaiseOutside("OSError")
          /\ UNCHANGED destKind
    /\ UNCHANGED <<destFiles, tempExists, server, progressVars, tempBound,
                   extracted_files, retval, netObs, streamObs, fsObs, prev, devVars>>

\* lines 51-53: the exception class the probe's try body raises, "None" if none:
\* requests.head (connection error, timeout), raise_for_status, int()
HeadRaises(r) ==
    IF r.status # "ok" THEN "RequestException"
    ELSE IF ~ParseContentLength(r.header).ok THEN "ValueError"
    ELSE "None"

\* an except clause that names RequestException alone
HeadCaughtNetOnly == {"RequestException"}

\* line 54: except (requests.exceptions.RequestException, ValueError, KeyError)
HeadCaught == {"RequestException", "ValueError", "KeyError"}

\* lines 48-56: the best-effort HEAD probe; it runs before the try block of
\* line 58, so an exception its own except clause misses leaves the call
HeadProbe ==
    /\ pc = "head"
    /\ nHead' = nHead + 1
    /\ \E r \in Responses :
          /\ headOutcome' = Outcome(r)
          /\ IF HeadRaises(r) = "None"
             THEN /\ total_bytes' = ParseContentLength(r.header).value
                  /\ pc' = "get"
                  /\ UNCHANGED <<failure, raised>>
             ELSE IF HeadRaises(r) \in HeadCaught
                  THEN /\ total_bytes' = 0
                       /\ pc' = "get"
                       /\ UNCHANGED <<failure, raised>>
                  ELSE /\ RaiseOutside(HeadRaises(r))
                       /\ UNCHANGED total_bytes
    /\ UNCHANGED <<env, server, taskTotal, chunk, tempSize, completed, tempBound,
                   extracted_files, retval, nGet, getOutcome, streamObs, fsObs,
                   prev, devVars>>

\* the GET without its raise_for_status() call
RaiseForStatusOmitted(r) == FALSE

\* line 76: response.raise_for_status() raises HTTPError on a 4xx/5xx status
RaiseForStatus(r) == r.status = "http_error"

\* lines 75-80: the streaming GET, raise_for_status, Content-Length fallback
Get ==
    /\ pc = "get"
    /\ nGet' = nGet + 1
    /\ \E r \in Responses :
          /\ getOutcome' = r.status
          /\ IF r.status \in {"conn_error", "timeout"} \/ RaiseForStatus(r)
             THEN RaiseInside("RequestException") /\ UNCHANGED total_bytes
             ELSE IF total_bytes = 0
                  THEN IF ParseContentLength(r.header).ok
                       THEN /\ total_bytes' = ParseContentLength(r.header).value
                            /\ pc' = "mktemp"
                            /\ UNCHANGED <<failure, raised>>
                       ELSE RaiseInside("ValueError") /\ UNCHANGED total_bytes
                  ELSE /\ pc' = "mktemp"
                       /\ UNCHANGED <<total_bytes, failure, raised>>
    /\ UNCHANGED <<env, server, taskTotal, chunk, tempSize, completed, tempBound,
                   extracted_files, retval, nHead, headOutcome, streamObs, fsObs,
                   prev, devVars>>

\* lines 83-92: create the staging file, add the progress task
MkTemp ==
    /\ pc = "mktemp"
    /\ \/ /\ tempExists' = TRUE
          /\ tempBound' = TRUE
          /\ tempCreated' = TRUE
          /\ taskTotal' = IF total_bytes > 0 THEN <<total_bytes>> ELSE <<>>
          /\ pc' = "stream"
          /\ UNCHANGED <<failure, raised>>
       \/ \* NamedTemporaryFile fails: no file, temp_zip_path never bound
          /\ RaiseInside("OSError")
          /\ UNCHANGED <<tempExists, tempBound, tempCreated, taskTotal>>
    /\ UNCHANGED <<destKind, destFiles, server, total_bytes, chunk, tempSize, completed,
                   extracted_files, retval, netObs, streamObs, destAtEntry,
                   extractStarted, unlinkFailed, prev, devVars>>

\* line 95-96: iter_content yields the next chunk, ends, or the connection breaks
StreamRecv ==
    /\ pc = "stream"
    /\ \/ \E c \in 0..MaxChunkLen :
             /\ nChunks < MaxChunks
             /\ chunk' = c
             /\ bodyLen' = bodyLen + c
             /\ nChunks' = nChunks + 1
             /\ nNonEmpty' = IF c > 0 THEN nNonEmpty + 1 ELSE nNonEmpty
             /\ pc' = IF c > 0 THEN "write" ELSE "stream"   \* if chunk:
             /\ UNCHANGED <<failure, raised>>
       \/ /\ pc' = "extract"
          /\ UNCHANGED <<chunk, bodyLen, nChunks, nNonEmpty, failure, raised>>
       \/ /\ RaiseInside("RequestException")
          /\ UNCHANGED <<chunk, bodyLen, nChunks, nNonEmpty>>
    /\ UNCHANGED <<env, server, total_bytes, taskTotal, tempSize, completed, tempBound,
                   extracted_files, retval, netObs, nUpdates, fsObs, prev, devVars>>

\* lines 97-98: temp_zip.write(chunk); temp_zip.flush()
StreamWrite ==
    /\ pc = "write"
    /\ \/ /\ tempSize' = tempSize + chunk
          /\ pc' = "update"
          /\ UNCHANGED <<failure, raised>>
       \/ /\ RaiseInside("OSError")
          /\ UNCHANGED tempSize
    /\ UNCHANGED <<env, server, total_bytes, taskTotal, chunk, completed, tempBound,
                   extracted_files, retval, netObs, streamObs, fsObs, prev, devVars>>

\* progress counted in chunks, not bytes
AdvanceByOne(c) == 1

\* line 99: advance=len(chunk)
Advance(c) == c

\* line 99: progress.update(download_task, advance=len(chunk), refresh=True)
StreamUpdate ==
    /\ pc = "update"
    /\ completed' = completed + Advance(chunk)
    /\ nUpdates' = nUpdates + 1
    /\ pc' = "stream"
    /\ UNCHANGED <<env, server, total_bytes, taskTotal, chunk, tempSize, tempBound,
                   resultVars, netObs, bodyLen, nChunks, nNonEmpty, fsObs, failure,
                   prev, devVars>>

\* an extraction that stops after the first entry
ExtractFirstOnly(files, names) ==
    IF names = <<>> THEN files ELSE files \cup {Head(names)}

\* line 106: zip_ref.extractall(extract_to)
ExtractAll(files, names) == files \cup Range(names)

\* lines 105-113: open the staging file as a ZIP, extractall, namelist
Extract ==
    /\ pc = "extract"
    /\ extractStarted' = TRUE
    /\ IF ~(zipValid /\ tempSize > 0)
       THEN /\ RaiseInside("BadZipFile")
            /\ UNCHANGED <<destFiles, extracted_files>>
       ELSE \/ /\ destFiles' = ExtractAll(destFiles, zipNames)
               /\ extracted_files' = zipNames
               /\ pc' = "cleanup"
               /\ UNCHANGED <<failure, raised>>
            \/ \* extractall fails at entry k+1; the first k stay on disk
               \E k \in 0..(Len(zipNames) - 1) :
                  /\ destFiles' = ExtractAll(destFiles, SubSeq(zipNames, 1, k))
                  /\ RaiseInside("OSError")
                  /\ UNCHANGED extracted_files
    /\ UNCHANGED <<destKind, tempExists, server, progressVars, tempBound, retval,
                   netObs, streamObs, destAtEntry, tempCreated, unlinkFailed, prev,
                   devVars>>

\* cleanup placed on the success path only, not in a finally block
CleanupOnSuccessOnly == tempBound /\ tempExists /\ raised = NoExc

\* line 123: 'temp_zip_path' in locals() and os.path.exists(temp_zip_path)
CleanupNeeded == tempBound /\ tempExists

\* lines 121-128: the finally block
Cleanup ==
    /\ pc = "cleanup"
    /\ IF CleanupNeeded
       THEN \/ tempExists' = FALSE /\ UNCHANGED unlinkFailed
            \/ \* os.unlink raises OSError: except OSError: pass
               unlinkFailed' = TRUE /\ UNCHANGED tempExists
       ELSE UNCHANGED <<tempExists, unlinkFailed>>
    /\ pc' = "done"
    /\ UNCHANGED <<destKind, destFiles, server, progressVars, tempBound, resultVars,
                   netObs, streamObs, destAtEntry, extractStarted, tempCreated,
                   failure, prev, devVars>>

\* The call has returned or raised; the caller goes on.
\* The locals die with the frame.  A staging file an unlink failure left
\* behind stays on disk under its own unique name; the next call creates a
\* different file, so tempExists starts FALSE again.
Return ==
    /\ pc = "done"
    /\ pc' = "idle"
    /\ prev' = <<failure, raised.type>>
    /\ total_bytes' = 0
    /\ taskTotal' = <<>>
    /\ chunk' = 0
    /\ tempSize' = 0
    /\ completed' = 0
    /\ tempBound' = FALSE
    /\ tempExists' = FALSE
    /\ extracted_files' = <<>>
    /\ raised' = NoExc
    /\ retval' = None
    /\ nHead' = 0
    /\ nGet' = 0
    /\ headOutcome' = "none"
    /\ getOutcome' = "none"
    /\ bodyLen' = 0
    /\ nChunks' = 0
    /\ nNonEmpty' = 0
    /\ nUpdates' = 0
    /\ failure' = "None"
    /\ extractStarted' = FALSE
    /\ tempCreated' = FALSE
    /\ unlinkFailed' = FALSE
    /\ skip_if_not_empty' = TRUE
    /\ zipValid' = TRUE
    /\ zipNames' = <<>>
    /\ destAtEntry' = [kind |-> destKind, files |-> destFiles]
    /\ UNCHANGED <<destKind, destFiles, devVars>>

\* ------------------------------------------------------------ get_device
\* helper_model.get_device: the if/elif/else of lines 4-12; the function
\* body ends at line 12 without a return statement.
GetDevice ==
    /\ pc = "idle"
    /\ cudaAvail' \in BOOLEAN
    /\ mpsAvail' \in BOOLEAN
    /\ device' = IF cudaAvail' THEN "cuda" ELSE IF mpsAvail' THEN "mps" ELSE "cpu"
    /\ devRet' = "None"
    /\ pc' = "dev_done"
    /\ UNCHANGED <<env, server, progressVars, tempBound, resultVars, netObs,
                   streamObs, fsObs, failure, prev>>

DeviceReturn ==
    /\ pc = "dev_done"
    /\ pc' = "idle"
    /\ cudaAvail' = FALSE
    /\ mpsAvail' = FALSE
    /\ device' = "unset"
    /\ devRet' = "unset"
    /\ UNCHANGED <<env, server, progressVars, tempBound, resultVars, netObs,
                   streamObs, fsObs, failure, prev>>

Next ==
    \/ Call
    \/ Guard
    \/ Mkdir
    \/ HeadProbe
    \/ Get
    \/ MkTemp
    \/ StreamRecv
    \/ StreamWrite
    \/ StreamUpdate
    \/ Extract
    \/ Cleanup
    \/ Return
    \/ GetDevice
    \/ DeviceReturn

Spec == Init /\ [][Next]_vars

\* ---------------------------------------------------------------- claims
InCall == pc \notin {"idle", "dev_done"}
Returned == pc = "done"
Succeeded == Returned /\ raised = NoExc

\* C1: with skip_if_not_empty set and a destination directory that exists and
\* holds at least one entry, the call returns normally with no HEAD and no GET
\* issued, no staging file created, and the directory's contents unchanged.
SkipApplies ==
    /\ skip_if_not_empty
    /\ destAtEntry.kind = "dir"
    /\ destAtEntry.files # {}

C1_SkipGuardNoEffects ==
    (InCall /\ SkipApplies) =>
        /\ pc \in {"guard", "done"}
        /\ nHead = 0
        /\ nGet = 0
        /\ ~tempCreated
        /\ ~tempExists
        /\ destKind = "dir"
        /\ destFiles = destAtEntry.files
        /\ raised = NoExc
        /\ retval = None

C1_Witness == Returned /\ SkipApplies

\* C2 as claimed: on every exit path the staging file no longer exists when
\* the call returns or raises.
C2_TempNeverOutlives == Returned => ~tempExists

\* C2 amended: on every exit path the staging file, if created, no longer
\* exists when the call returns or raises, unless os.unlink itself failed
\* (that OSError is swallowed and the file stays).
C2_TempRemovedUnlessUnlinkFails ==
    Returned =>
        /\ tempExists => unlinkFailed
        /\ unlinkFailed => tempCreated
        /\ (tempCreated /\ ~unlinkFailed) => ~tempExists

C2_Witness == Returned /\ tempCreated /\ ~tempExists /\ failure = "BadZipFile"

FatalClasses == {"RequestException", "BadZipFile", "OSError"}

C4_ErrorKindsDistinct ==
    (Returned /\ failure \in FatalClasses /\ prev[1] \in FatalClasses
              /\ prev[1] # failure)
        => raised.type # prev[2]

C6_FsErrorsWrapped == (Returned /\ failure = "OSError") => raised = FileOpFailed

\* C7: get_device returns CUDA when available, else MPS when available, else
\* CPU.
C7_DevicePriority ==
    pc = "dev_done" =>
        devRet = IF cudaAvail THEN "cuda" ELSE IF mpsAvail THEN "mps" ELSE "cpu"

\* C8: the HEAD probe is never fatal: after any outcome of it the GET is
\* issued, and after a failed probe (network error, timeout, error status,
\* missing or malformed Content-Length) the size is unknown (0).
HeadFailures == {"conn_error", "timeout", "http_error", "missing", "malformed"}

C8_HeadProbeNeverFatal ==
    nHead = 1 =>
        /\ pc # "head"
        /\ pc = "get" =>
              /\ raised = NoExc
              /\ failure = "None"
              /\ headOutcome \in HeadFailures => total_bytes = 0
        /\ pc # "get" => nGet = 1

C8_Witness ==
    /\ Succeeded
    /\ headOutcome = "malformed"
    /\ nGet = 1
    /\ extracted_files # <<>>

\* C9: whenever the total is known, the bytes reported to the progress task
\* never exceed it.
C9_TransferredWithinTotal == taskTotal # <<>> => completed <= taskTotal[1]

\* C10: progress advances once per non-empty chunk, by its length, after the
\* write; when streaming completes the reported bytes equal the bytes written
\* to the staging file and the length of the delivered body.
StreamingComplete == pc = "extract" \/ extractStarted

C10_ProgressMatchesBody ==
    /\ completed <= tempSize
    /\ tempSize <= bodyLen
    /\ nUpdates <= nNonEmpty
    /\ (pc = "stream" \/ StreamingComplete) =>
          /\ completed = tempSize
          /\ tempSize = bodyLen
          /\ nUpdates = nNonEmpty

C10_Witness ==
    /\ pc = "extract"
    /\ nChunks = 2
    /\ nNonEmpty = 1
    /\ completed = 2
====
